---- MODULE Spec2Model ----
(***************************************************************************)
(* MongoDB Mini Toolz: the three transfer jobs of the server               *)
(* (POST /api/backup, /api/transfer, /api/upload), their progress          *)
(* computation, the push-channel helper emitProgress and the cleanup       *)
(* registry scheduleCleanup, as one state machine.  One job runs per       *)
(* behaviour; each await of the handlers is a step that either succeeds    *)
(* or throws.                                                              *)
(***************************************************************************)
EXTENDS Integers, Sequences, FiniteSets, TLC

VARIABLES
    mode,              \* "export" | "copy" | "import": which route was posted
    missing,           \* the required request field that is absent, or "none"
    socketId,          \* TRUE iff req.body.socketId is set
    batchIn,           \* req.body.batchSize: Null (absent / not a number) or Some(n)
    src,               \* source database: sequence of collections, each a sequence of records
    files,             \* extracted upload: sequence of file texts (sequences of characters)
    dst,               \* destination collections, by collection / file ordinal
    fsOut,             \* export: bytes flushed to each collection's .ndjson file
    wsBuf,             \* export: bytes queued in each collection's write stream
    streams,           \* state of each write / read stream the job created
    archive,           \* export: what the zip holds of each collection file (Null before)
    paths,             \* filesystem artifacts that exist
    scheduledCleanups, \* the scheduledCleanups map's keys
    pc,                \* position of the handler
    client,            \* state of client (export, import) / srcClient (copy)
    dstClient,         \* state of dstClient (copy)
    collIndex,         \* 1-based ordinal of the collection / file being processed
    pos,               \* records consumed from the cursor / characters read from the file
    done,              \* docsDone / transferred / importedCount
    totalDocs,         \* Some(n) or Null
    elapsed,           \* Date.now() - start, in milliseconds
    buffer,            \* import: pending partial-line buffer
    docsBatch,         \* import: accumulation batch
    failed,            \* an exception has been thrown in the handler
    events,            \* what io.to(socketId).emit was called with, in order
    res,               \* HTTP status sent, 0 while no response was sent
    clock,             \* Date.now() of the server process, in ticks
    fireAt,            \* the scheduledCleanups map's values: when each timer is due
    removing,          \* keys whose timer fired and whose fs.remove is in flight
    cleanupLog,        \* per path: its scheduleCleanup calls and timer callbacks, in order
    jobDirs,           \* per request: the paths its handler derived for its job
    formsDisabled,     \* browser: what setFormsDisabled was last called with
    clientSocketId,    \* browser: its socketId variable, Null until welcome
    connected,         \* browser: the socket is connected
    ui,                \* browser: "idle" | "fetching" | "settled" (fetch over)
    request,           \* the request the browser posted, Null before
    inbox              \* socket events emitted to the browser, not yet handled

jobVars  == <<mode, missing, socketId, batchIn, src, files>>
dataVars == <<dst, fsOut, wsBuf, streams, archive, paths, scheduledCleanups>>
loopVars == <<collIndex, pos, done, totalDocs, elapsed, buffer, docsBatch>>
ctlVars  == <<pc, client, dstClient, failed, events, res>>
regVars  == <<clock, fireAt, removing, cleanupLog, jobDirs>>
uiVars   == <<formsDisabled, clientSocketId, connected, ui, request, inbox>>
srvVars  == <<jobVars, dataVars, loopVars, ctlVars, regVars>>
vars     == <<srvVars, uiVars>>

-----------------------------------------------------------------------------
(* Bounds of the model *)

MaxDocs    == 3     \* records per source collection
MaxLines   == 2     \* terminated lines per import file
MaxChunk   == 3     \* characters per stream chunk
MaxBatch   == 2     \* largest explicit batchSize of a request
MaxElapsed == 5000  \* largest elapsed time of one collection, in ms
MaxEvents  == 6     \* cap on the event log while a batch loop pulls empty batches
TtlTicks   == 2     \* CLEANUP_TTL_MIN of the environment, in clock ticks
MaxClock   == 3     \* last tick of the server clock
MaxInbox   == 3     \* socket events in flight to the browser

(* Program constants *)
DefaultBatch == 1000

-----------------------------------------------------------------------------
(* Nullable values (JavaScript null / undefined) *)

Null     == <<>>
Some(v)  == <<v>>

Max(a, b) == IF a >= b THEN a ELSE b
Min(a, b) == IF a <= b THEN a ELSE b

\* Math.round(num / den) for den > 0: floor(x + 0.5)
Round(num, den) == (2 * num + den) \div (2 * den)

\* a JavaScript number used as a condition: null and 0 are falsy
Truthy(t) == t # Null /\ t[1] # 0

-----------------------------------------------------------------------------
(* Progress computation *)

\* elapsedSec = Math.max(1, ms / 1000); speed = Math.round(count / elapsedSec)
Speed(count, ms) == Round(count * 1000, Max(1000, ms))

PercentNoClamp(count, total) ==
    IF Truthy(total) THEN Some(Round(count * 100, total[1])) ELSE Null

PercentOfZero(count, total) ==
    IF Truthy(total) THEN Some(Min(100, Round(count * 100, total[1])))
    ELSE Some(100)

Percent(count, total) ==
    IF Truthy(total) THEN Some(Min(100, Round(count * 100, total[1]))) ELSE Null

EtaNoFloor(count, total, speed) ==
    IF Truthy(total) /\ speed # 0
    THEN Some(Round(total[1] - count, speed))
    ELSE Null

EtaSec(count, total, speed) ==
    IF Truthy(total) /\ speed # 0
    THEN Some(Max(0, Round(total[1] - count, speed)))
    ELSE Null

Ev(kind, coll, count, total, percent, speed, eta) ==
    [kind |-> kind, coll |-> coll, done |-> count, total |-> total,
     percent |-> percent, speed |-> speed, etaSec |-> eta]

ProgressEvent(coll, count, total, ms) ==
    Ev("progress", coll, Some(count), total, Percent(count, total),
       Some(Speed(count, ms)), EtaSec(count, total, Speed(count, ms)))

\* emitProgress(socketId, event, payload)
EmitProgressAlways(log, ev) == Append(log, ev)

EmitProgress(log, ev) == IF ~socketId THEN log ELSE Append(log, ev)

\* BATCH_SIZE = parseInt(req.body.batchSize, 10) || 1000
BATCH_SIZE == IF batchIn = Null \/ batchIn[1] = 0 THEN DefaultBatch ELSE batchIn[1]

-----------------------------------------------------------------------------
(* Serialized records and the line parser *)

NL == "\n"
RecordIds == <<"a", "b", "c", "d", "e">>

\* JSON.stringify(d)
Stringify(d) == <<"{", d, "}">>

\* buffer.indexOf("\n"), 1-based; 0 when absent
IndexOf(s, c) ==
    IF \E i \in 1..Len(s) : s[i] = c
    THEN CHOOSE i \in 1..Len(s) : s[i] = c /\ \A j \in 1..(i - 1) : s[j] # c
    ELSE 0

\* String.prototype.trim
RECURSIVE Trim(_)
Trim(s) ==
    IF s = <<>> THEN s
    ELSE IF Head(s) = " " THEN Trim(Tail(s))
    ELSE IF s[Len(s)] = " " THEN Trim(SubSeq(s, 1, Len(s) - 1))
    ELSE s

\* JSON.parse(line): Some(record), or Null when it throws
JsonParse(line) ==
    IF Len(line) = 3 /\ line[1] = "{" /\ line[3] = "}"
       /\ \E i \in 1..Len(RecordIds) : RecordIds[i] = line[2]
    THEN Some(line[2])
    ELSE Null

countLinesBetween(text) ==
    LET n == Cardinality({i \in 1..Len(text) : text[i] = NL})
    IN  IF n > 0 THEN n - 1 ELSE 0

\* countLinesStream: the number of "\n" characters
RECURSIVE countLinesStream(_)
countLinesStream(text) ==
    IF text = <<>> THEN 0
    ELSE (IF Head(text) = NL THEN 1 ELSE 0) + countLinesStream(Tail(text))

\* the ndjson text the export loop writes for a sequence of records
RECURSIVE Ndjson(_)
Ndjson(recs) ==
    IF recs = <<>> THEN <<>>
    ELSE Stringify(Head(recs)) \o <<NL>> \o Ndjson(Tail(recs))

-----------------------------------------------------------------------------
(* Requests *)

Modes == {"export", "copy", "import"}

\* the fields each route needs
Required(m) ==
    IF m = "export" THEN {"uri", "dbName"}
    ELSE IF m = "copy" THEN {"srcUri", "srcDb", "dstUri", "dstDb"}
    ELSE {"file", "uri", "dbName"}

BatchInputs == {Null} \cup {Some(n) : n \in (-1)..MaxBatch}

Coll(n) == SubSeq(RecordIds, 1, n)

\* source databases: none, one or two collections, and one collection
\* holding every record id
Databases ==
    {<<>>, <<RecordIds>>}
        \cup {<<Coll(n)>> : n \in 0..MaxDocs}
        \cup {<<Coll(n), Coll(m)>> : n \in 0..MaxDocs, m \in 0..1}

\* terminated lines of an import file: a record, a padded record, a
\* truncated record, a blank line
LineKinds ==
    {Stringify("a"), <<" ">> \o Stringify("b") \o <<" ">>, <<"{", "a">>, <<" ">>}

RECURSIVE TextsOf(_)
TextsOf(n) ==
    IF n = 0 THEN {<<>>}
    ELSE TextsOf(n - 1) \cup
         {t \o l \o <<NL>> : t \in TextsOf(n - 1), l \in LineKinds}

\* a file: terminated lines, then possibly a last record without terminator
FileTexts(n) == {t \o tl : t \in TextsOf(n), tl \in {<<>>, Stringify("c")}}

Uploads ==
    {<<>>} \cup {<<f>> : f \in FileTexts(MaxLines)}
           \cup {<<f, Ndjson(<<"a">>)>> : f \in FileTexts(1)}
           \cup {<<Ndjson(Coll(MaxLines + 1))>>}

\* what a destination collection holds before the job
Stale == <<"z">>

\* elapsed time added while one batch is pulled and applied, in ms
Ticks == {0, 2500}

NColls == IF mode = "import" THEN Len(files) ELSE Len(src)

Init ==
    /\ mode \in Modes
    /\ missing \in {"none"} \cup Required(mode)
    /\ socketId \in BOOLEAN
    /\ batchIn \in BatchInputs
    /\ src \in IF mode = "import" THEN {<<>>}
               ELSE IF missing # "none" THEN {<<Coll(1)>>}
               ELSE Databases
    /\ files \in IF mode # "import" THEN {<<>>}
                 ELSE IF missing # "none" THEN {<<Ndjson(<<"a">>)>>}
                 ELSE Uploads
    /\ dst = IF mode = "export" THEN <<>> ELSE [i \in 1..NColls |-> Stale]
    /\ fsOut = [i \in 1..NColls |-> <<>>]
    /\ wsBuf = [i \in 1..NColls |-> <<>>]
    /\ streams = [i \in 1..NColls |-> "none"]
    /\ archive = Null
    /\ paths = IF mode = "import" /\ missing # "file" THEN {"upload"} ELSE {}
    /\ scheduledCleanups = {}
    /\ pc = "request"
    /\ client = "none"
    /\ dstClient = "none"
    /\ collIndex = 0
    /\ pos = 0
    /\ done = 0
    /\ totalDocs = Null
    /\ elapsed = 0
    /\ buffer = <<>>
    /\ docsBatch = <<>>
    /\ failed = FALSE
    /\ events = <<>>
    /\ res = 0
    /\ clock = 0
    /\ fireAt = <<>>
    /\ removing = {}
    /\ cleanupLog = <<>>
    /\ jobDirs = <<>>
    /\ formsDisabled = FALSE /\ clientSocketId = Null /\ connected = FALSE
    /\ ui = "idle" /\ request = Null /\ inbox = <<>>

-----------------------------------------------------------------------------
(* Shared steps *)

JobEv(kind) == Ev(kind, 0, Null, Null, Null, Null, Null)
CollEv(kind, coll, count, total) == Ev(kind, coll, count, total, Null, Null, Null)

\* what countDocuments may answer for a collection of n records: n, a stale
\* smaller count, or a failure (caught: totalDocs = 0)
CountResults(n) == {Some(n), Some(0)} \cup {Some(n - 1) : m \in {n} \ {0, 1}}

PullCountOffByOne(remaining) ==
    IF BATCH_SIZE > 0 THEN Min(BATCH_SIZE + 1, remaining) ELSE 0

\* the inner for loop: i < BATCH_SIZE && (await cursor.hasNext())
PullCount(remaining) == IF BATCH_SIZE > 0 THEN Min(BATCH_SIZE, remaining) ELSE 0

\* catch (err) of the backup and transfer handlers
Catch ==
    /\ events' = EmitProgress(events, JobEv("error"))
    /\ res' = 500
    /\ failed' = TRUE
    /\ pc' = "finally"

Tick == \E dt \in Ticks : elapsed + dt <= MaxElapsed /\ elapsed' = elapsed + dt

\* first collection, or past the loop when there is none
EnterLoop ==
    /\ collIndex' = 1
    /\ pc' = IF NColls = 0 THEN "finish" ELSE "collBegin"

NextColl ==
    /\ collIndex' = collIndex + 1
    /\ pc' = IF collIndex = NColls THEN "finish" ELSE "collBegin"

-----------------------------------------------------------------------------
(* POST /api/backup *)

BackupRequest ==
    /\ pc = "request" /\ mode = "export"
    /\ IF missing # "none"
       THEN res' = 400 /\ pc' = "end" /\ paths' = paths
       ELSE res' = res /\ pc' = "connect" /\ paths' = paths \cup {"outDir"}
    /\ UNCHANGED <<jobVars, dst, fsOut, wsBuf, streams, archive,
                   scheduledCleanups, loopVars, client, dstClient, failed, events>>
    /\ UNCHANGED <<regVars, uiVars>>

\* fs.ensureDir(outDir) rejects: before the try block, nothing catches it
BackupEnsureDirFail ==
    /\ pc = "request" /\ mode = "export" /\ missing = "none"
    /\ pc' = "end" /\ failed' = TRUE
    /\ UNCHANGED <<jobVars, dataVars, loopVars, client, dstClient, events, res>>
    /\ UNCHANGED <<regVars, uiVars>>

BackupConnect ==
    /\ pc = "connect" /\ mode = "export"
    /\ client' = "open"
    /\ events' = EmitProgress(events, JobEv("start"))
    /\ EnterLoop
    /\ UNCHANGED <<jobVars, dataVars, pos, done, totalDocs, elapsed, buffer,
                   docsBatch, dstClient, failed, res>>
    /\ UNCHANGED <<regVars, uiVars>>

\* new MongoClient throws, connect rejects, or listCollections rejects
BackupConnectFail ==
    /\ pc = "connect" /\ mode = "export"
    /\ client' \in {"none", "created", "open"}
    /\ Catch
    /\ UNCHANGED <<jobVars, dataVars, loopVars, dstClient>>
    /\ UNCHANGED <<regVars, uiVars>>

BackupCollBegin ==
    /\ pc = "collBegin" /\ mode = "export"
    /\ totalDocs' \in CountResults(Len(src[collIndex]))
    /\ streams' = [streams EXCEPT ![collIndex] = "open"]
    /\ events' = EmitProgress(events,
                    CollEv("collection-start", collIndex, Null, totalDocs'))
    /\ pos' = 0 /\ done' = 0 /\ elapsed' = 0
    /\ pc' = "loop"
    /\ UNCHANGED <<jobVars, dst, fsOut, wsBuf, archive, paths, scheduledCleanups,
                   collIndex, buffer, docsBatch, client, dstClient, failed, res>>
    /\ UNCHANGED <<regVars, uiVars>>

\* one pass of while (await cursor.hasNext()): pull, write, report
BackupBatch ==
    /\ pc = "loop" /\ mode = "export"
    /\ pos < Len(src[collIndex])
    /\ LET k     == PullCount(Len(src[collIndex]) - pos)
           batch == SubSeq(src[collIndex], pos + 1, pos + k)
       IN  /\ k > 0 \/ Len(events) < MaxEvents
           /\ pos' = pos + k
           /\ wsBuf' = [wsBuf EXCEPT ![collIndex] = @ \o Ndjson(batch)]
           /\ done' = done + Len(batch)
           /\ Tick
           /\ events' = EmitProgress(events,
                           ProgressEvent(collIndex, done', totalDocs, elapsed'))
    /\ UNCHANGED <<jobVars, dst, fsOut, streams, archive, paths, scheduledCleanups,
                   collIndex, totalDocs, buffer, docsBatch, pc, client, dstClient,
                   failed, res>>
    /\ UNCHANGED <<regVars, uiVars>>

\* cursor.hasNext() or cursor.next() rejects
BackupCursorFail ==
    /\ pc = "loop" /\ mode = "export"
    /\ Catch
    /\ UNCHANGED <<jobVars, dataVars, loopVars, client, dstClient>>
    /\ UNCHANGED <<regVars, uiVars>>

BackupCollEnd ==
    /\ pc = "loop" /\ mode = "export"
    /\ pos = Len(src[collIndex])
    /\ streams' = [streams EXCEPT ![collIndex] = "ending"]
    /\ events' = EmitProgress(events,
                    CollEv("collection-done", collIndex, Null, Null))
    /\ NextColl
    /\ UNCHANGED <<jobVars, dst, fsOut, wsBuf, archive, paths, scheduledCleanups,
                   pos, done, totalDocs, elapsed, buffer, docsBatch, client,
                   dstClient, failed, res>>
    /\ UNCHANGED <<regVars, uiVars>>

\* the write stream hands what it queued to the file; after end() it closes
WriteStreamFlush ==
    /\ mode = "export"
    /\ \E i \in 1..NColls :
          /\ wsBuf[i] # <<>> \/ streams[i] = "ending"
          /\ fsOut' = [fsOut EXCEPT ![i] = @ \o wsBuf[i]]
          /\ wsBuf' = [wsBuf EXCEPT ![i] = <<>>]
          /\ streams' = [streams EXCEPT ![i] = IF @ = "ending" THEN "closed" ELSE @]
    /\ UNCHANGED <<jobVars, dst, archive, paths, scheduledCleanups, loopVars, ctlVars>>
    /\ UNCHANGED <<regVars, uiVars>>

\* the archive of outDir, then backup-done and the response
BackupZip ==
    /\ pc = "finish" /\ mode = "export"
    /\ archive' = Some(fsOut)
    /\ paths' = paths \cup {"zip"}
    /\ events' = EmitProgress(events, JobEv("done"))
    /\ res' = 200
    /\ pc' = "finally"
    /\ UNCHANGED <<jobVars, dst, fsOut, wsBuf, streams, scheduledCleanups, loopVars,
                   client, dstClient, failed>>
    /\ UNCHANGED <<regVars, uiVars>>

BackupZipFail ==
    /\ pc = "finish" /\ mode = "export"
    /\ Catch
    /\ UNCHANGED <<jobVars, dataVars, loopVars, client, dstClient>>
    /\ UNCHANGED <<regVars, uiVars>>

\* finally { if (client) await client.close(); }
BackupFinally ==
    /\ pc = "finally" /\ mode = "export"
    /\ \/ client' = (IF client = "none" THEN "none" ELSE "closed") /\ failed' = failed
       \/ client # "none" /\ client' = "closeFailed" /\ failed' = TRUE
    /\ pc' = "end"
    /\ UNCHANGED <<jobVars, dataVars, loopVars, dstClient, events, res>>
    /\ UNCHANGED <<regVars, uiVars>>

BackupNext ==
    \/ BackupRequest \/ BackupEnsureDirFail \/ BackupConnect \/ BackupConnectFail
    \/ BackupCollBegin \/ BackupBatch \/ BackupCursorFail \/ BackupCollEnd
    \/ WriteStreamFlush \/ BackupZip \/ BackupZipFail \/ BackupFinally

-----------------------------------------------------------------------------
(* POST /api/transfer *)

TransferRequest ==
    /\ pc = "request" /\ mode = "copy"
    /\ IF missing # "none"
       THEN res' = 400 /\ pc' = "end"
       ELSE res' = res /\ pc' = "connect"
    /\ UNCHANGED <<jobVars, dataVars, loopVars, client, dstClient, failed, events>>
    /\ UNCHANGED <<regVars, uiVars>>

TransferConnect ==
    /\ pc = "connect" /\ mode = "copy"
    /\ client' = "open" /\ dstClient' = "open"
    /\ events' = EmitProgress(events, JobEv("start"))
    /\ EnterLoop
    /\ UNCHANGED <<jobVars, dataVars, pos, done, totalDocs, elapsed, buffer,
                   docsBatch, failed, res>>
    /\ UNCHANGED <<regVars, uiVars>>

\* a constructor throws, a connect rejects, or listCollections rejects
TransferConnectFail ==
    /\ pc = "connect" /\ mode = "copy"
    /\ \E c \in {<<"none", "none">>, <<"created", "none">>, <<"created", "created">>,
                  <<"open", "created">>, <<"open", "open">>} :
          client' = c[1] /\ dstClient' = c[2]
    /\ Catch
    /\ UNCHANGED <<jobVars, dataVars, loopVars>>
    /\ UNCHANGED <<regVars, uiVars>>

TransferCollBeginNoClear ==
    /\ pc = "collBegin" /\ mode = "copy"
    /\ totalDocs' \in CountResults(Len(src[collIndex]))
    /\ events' = EmitProgress(events,
                    CollEv("collection-start", collIndex, Null, totalDocs'))
    /\ pos' = 0 /\ done' = 0 /\ elapsed' = 0
    /\ pc' = "loop"
    /\ UNCHANGED <<jobVars, dataVars, collIndex, buffer, docsBatch, client,
                   dstClient, failed, res>>
    /\ UNCHANGED <<regVars, uiVars>>

TransferCollBegin ==
    /\ pc = "collBegin" /\ mode = "copy"
    /\ totalDocs' \in CountResults(Len(src[collIndex]))
    /\ dst' = [dst EXCEPT ![collIndex] = <<>>]
    /\ events' = EmitProgress(events,
                    CollEv("collection-start", collIndex, Null, totalDocs'))
    /\ pos' = 0 /\ done' = 0 /\ elapsed' = 0
    /\ pc' = "loop"
    /\ UNCHANGED <<jobVars, fsOut, wsBuf, streams, archive, paths,
                   scheduledCleanups, collIndex, buffer, docsBatch, client,
                   dstClient, failed, res>>
    /\ UNCHANGED <<regVars, uiVars>>

\* dstColl.deleteMany({}) rejects
TransferDeleteFail ==
    /\ pc = "collBegin" /\ mode = "copy"
    /\ Catch
    /\ UNCHANGED <<jobVars, dataVars, loopVars, client, dstClient>>
    /\ UNCHANGED <<regVars, uiVars>>

\* one pass of while (await cursor.hasNext()): pull, insertMany, report
TransferBatch ==
    /\ pc = "loop" /\ mode = "copy"
    /\ pos < Len(src[collIndex])
    /\ LET k     == PullCount(Len(src[collIndex]) - pos)
           batch == SubSeq(src[collIndex], pos + 1, pos + k)
       IN  /\ pos' = pos + k
           /\ IF batch # <<>>
              THEN /\ dst' = [dst EXCEPT ![collIndex] = @ \o batch]
                   /\ done' = done + Len(batch)
                   /\ Tick
                   /\ events' = EmitProgress(events,
                           ProgressEvent(collIndex, done', totalDocs, elapsed'))
              ELSE UNCHANGED <<dst, done, elapsed, events>>
    /\ UNCHANGED <<jobVars, fsOut, wsBuf, streams, archive, paths,
                   scheduledCleanups, collIndex, totalDocs, buffer, docsBatch, pc,
                   client, dstClient, failed, res>>
    /\ UNCHANGED <<regVars, uiVars>>

\* insertMany rejects after inserting part of the batch
TransferInsertFail ==
    /\ pc = "loop" /\ mode = "copy"
    /\ pos < Len(src[collIndex])
    /\ LET k == PullCount(Len(src[collIndex]) - pos)
       IN  /\ k > 0
           /\ \E j \in 0..(k - 1) :
                 dst' = [dst EXCEPT ![collIndex] =
                            @ \o SubSeq(src[collIndex], pos + 1, pos + j)]
           /\ pos' = pos + k
    /\ Catch
    /\ UNCHANGED <<jobVars, fsOut, wsBuf, streams, archive, paths,
                   scheduledCleanups, collIndex, done, totalDocs, elapsed, buffer,
                   docsBatch, client, dstClient>>
    /\ UNCHANGED <<regVars, uiVars>>

TransferCursorFailContinue ==
    /\ pc = "loop" /\ mode = "copy"
    /\ events' = EmitProgress(events, JobEv("error"))
    /\ failed' = TRUE
    /\ NextColl
    /\ UNCHANGED <<jobVars, dataVars, pos, done, totalDocs, elapsed, buffer,
                   docsBatch, client, dstClient, res>>
    /\ UNCHANGED <<regVars, uiVars>>

\* cursor.hasNext() or cursor.next() rejects
TransferCursorFail ==
    /\ pc = "loop" /\ mode = "copy"
    /\ Catch
    /\ UNCHANGED <<jobVars, dataVars, loopVars, client, dstClient>>
    /\ UNCHANGED <<regVars, uiVars>>

TransferCollEnd ==
    /\ pc = "loop" /\ mode = "copy"
    /\ pos = Len(src[collIndex])
    /\ events' = EmitProgress(events,
                    CollEv("collection-done", collIndex, Null, Null))
    /\ NextColl
    /\ UNCHANGED <<jobVars, dataVars, pos, done, totalDocs, elapsed, buffer,
                   docsBatch, client, dstClient, failed, res>>
    /\ UNCHANGED <<regVars, uiVars>>

TransferDone ==
    /\ pc = "finish" /\ mode = "copy"
    /\ events' = EmitProgress(events, JobEv("done"))
    /\ res' = 200
    /\ pc' = "finally"
    /\ UNCHANGED <<jobVars, dataVars, loopVars, client, dstClient, failed>>
    /\ UNCHANGED <<regVars, uiVars>>

CloseOf(c) == IF c = "none" THEN "none" ELSE "closed"

\* finally { if (srcClient) await srcClient.close();
\*           if (dstClient) await dstClient.close(); }
TransferFinally ==
    /\ pc = "finally" /\ mode = "copy"
    /\ \/ client' = CloseOf(client) /\ dstClient' = CloseOf(dstClient)
          /\ failed' = failed
       \/ client # "none" /\ client' = "closeFailed" /\ dstClient' = dstClient
          /\ failed' = TRUE
       \/ dstClient # "none" /\ client' = CloseOf(client)
          /\ dstClient' = "closeFailed" /\ failed' = TRUE
    /\ pc' = "end"
    /\ UNCHANGED <<jobVars, dataVars, loopVars, events, res>>
    /\ UNCHANGED <<regVars, uiVars>>

TransferNext ==
    \/ TransferRequest \/ TransferConnect \/ TransferConnectFail
    \/ TransferCollBegin \/ TransferDeleteFail \/ TransferBatch
    \/ TransferInsertFail \/ TransferCursorFail \/ TransferCollEnd
    \/ TransferDone \/ TransferFinally

-----------------------------------------------------------------------------
(* Cleanup registry *)

NeverRegistered(reg, absPath) == FALSE

\* scheduledCleanups.has(absPath)
Registered(reg, absPath) == absPath \in reg

\* scheduleCleanup(absPath): a no-op while absPath is registered
scheduleCleanup(reg, absPath) == IF absPath \in reg THEN reg ELSE reg \cup {absPath}

\* the timer a scheduleCleanup call sets, due ttlMs after the call
scheduleTimer(fa, reg, absPath) ==
    IF Registered(reg, absPath) THEN fa ELSE (absPath :> clock + TtlTicks) @@ fa

LogEntry(op, absPath, ok) == [op |-> op, path |-> absPath, at |-> clock, ok |-> ok]

\* the history of one path
LogOf(log, absPath) == IF absPath \in DOMAIN log THEN log[absPath] ELSE <<>>
Logged(log, e) == (e.path :> Append(LogOf(log, e.path), e)) @@ log

\* the record of a scheduleCleanup call: it set a timer or returned at once
scheduleLog(log, reg, absPath) ==
    Logged(log, LogEntry(IF Registered(reg, absPath) THEN "noop" ELSE "set",
                         absPath, TRUE))

\* scheduleCleanup(d); scheduleCleanup(f);
ScheduleCleanups(d, f) ==
    LET reg1 == scheduleCleanup(scheduledCleanups, d) IN
    /\ scheduledCleanups' = scheduleCleanup(reg1, f)
    /\ fireAt' = scheduleTimer(scheduleTimer(fireAt, scheduledCleanups, d), reg1, f)
    /\ cleanupLog' = scheduleLog(scheduleLog(cleanupLog, scheduledCleanups, d), reg1, f)

\* a timer is due and its callback starts: await fs.remove(absPath)
CleanupFire ==
    /\ \E p \in scheduledCleanups \ removing :
          /\ clock' = Max(clock, fireAt[p])
          /\ removing' = removing \cup {p}
          /\ cleanupLog' = Logged(cleanupLog,
                              [LogEntry("fire", p, TRUE) EXCEPT !.at = clock'])
    /\ UNCHANGED <<jobVars, dataVars, loopVars, ctlVars, fireAt, jobDirs>>
    /\ UNCHANGED uiVars

CleanupRemovedKeepOnFail ==
    /\ \E p \in removing, ok \in BOOLEAN :
          /\ paths' = IF ok THEN paths \ {p} ELSE paths
          /\ scheduledCleanups' = IF ok THEN scheduledCleanups \ {p}
                                  ELSE scheduledCleanups
          /\ fireAt' = [q \in DOMAIN fireAt \ (IF ok THEN {p} ELSE {}) |-> fireAt[q]]
          /\ removing' = removing \ {p}
          /\ cleanupLog' = Logged(cleanupLog, LogEntry("deleted", p, ok))
    /\ UNCHANGED <<jobVars, dst, fsOut, wsBuf, streams, archive, loopVars, ctlVars,
                   clock, jobDirs>>
    /\ UNCHANGED uiVars

\* fs.remove settled (a failure is logged), then scheduledCleanups.delete
CleanupRemoved ==
    /\ \E p \in removing, ok \in BOOLEAN :
          /\ paths' = IF ok THEN paths \ {p} ELSE paths
          /\ scheduledCleanups' = scheduledCleanups \ {p}
          /\ fireAt' = [q \in DOMAIN fireAt \ {p} |-> fireAt[q]]
          /\ removing' = removing \ {p}
          /\ cleanupLog' = Logged(cleanupLog, LogEntry("deleted", p, ok))
    /\ UNCHANGED <<jobVars, dst, fsOut, wsBuf, streams, archive, loopVars, ctlVars,
                   clock, jobDirs>>
    /\ UNCHANGED uiVars

-----------------------------------------------------------------------------
(* POST /api/upload *)

\* catch (err) of the upload handler: res.status(500).json throws when the
\* response was already sent
UploadCatch ==
    /\ events' = EmitProgress(events, JobEv("error"))
    /\ res' = IF res = 0 THEN 500 ELSE res
    /\ failed' = TRUE
    /\ pc' = "outerFinally"

\* an exception inside the inner try: on to the inner finally
Throw ==
    /\ failed' = TRUE
    /\ pc' = "innerFinally"

UploadRequest ==
    /\ pc = "request" /\ mode = "import"
    /\ IF missing = "file"
       THEN res' = 400 /\ pc' = "end" /\ paths' = paths
       ELSE res' = res /\ pc' = "extract" /\ paths' = paths \cup {"extractDir"}
    /\ UNCHANGED <<jobVars, dst, fsOut, wsBuf, streams, archive,
                   scheduledCleanups, loopVars, client, dstClient, failed, events>>
    /\ UNCHANGED <<regVars, uiVars>>

\* fs.ensureDir(extractDir) rejects: before the try block, nothing catches it
UploadEnsureDirFail ==
    /\ pc = "request" /\ mode = "import" /\ missing # "file"
    /\ pc' = "end" /\ failed' = TRUE
    /\ UNCHANGED <<jobVars, dataVars, loopVars, client, dstClient, events, res>>
    /\ UNCHANGED <<regVars, uiVars>>

UploadExtract ==
    /\ pc = "extract" /\ mode = "import"
    /\ pc' = "connect"
    /\ UNCHANGED <<jobVars, dataVars, loopVars, client, dstClient, failed, events, res>>
    /\ UNCHANGED <<regVars, uiVars>>

UploadExtractFail ==
    /\ pc = "extract" /\ mode = "import"
    /\ UploadCatch
    /\ UNCHANGED <<jobVars, dataVars, loopVars, client, dstClient>>
    /\ UNCHANGED <<regVars, uiVars>>

\* new MongoClient(uri), connect, client.db(dbName), readdir, upload-start
UploadConnect ==
    /\ pc = "connect" /\ mode = "import"
    /\ missing # "uri"
    /\ client' = "open"
    /\ events' = EmitProgress(events, JobEv("start"))
    /\ EnterLoop
    /\ UNCHANGED <<jobVars, dataVars, pos, done, totalDocs, elapsed, buffer,
                   docsBatch, dstClient, failed, res>>
    /\ UNCHANGED <<regVars, uiVars>>

\* new MongoClient throws (always so without a uri), connect or readdir rejects
UploadConnectFail ==
    /\ pc = "connect" /\ mode = "import"
    /\ client' \in IF missing = "uri" THEN {"none"} ELSE {"none", "created", "open"}
    /\ Throw
    /\ UNCHANGED <<jobVars, dataVars, loopVars, dstClient, events, res>>
    /\ UNCHANGED <<regVars, uiVars>>

UploadFileBegin ==
    /\ pc = "collBegin" /\ mode = "import"
    /\ streams' = [streams EXCEPT ![collIndex] = "open"]
    /\ dst' = [dst EXCEPT ![collIndex] = <<>>]
    /\ totalDocs' \in {Some(countLinesStream(files[collIndex])), Null}
    /\ events' = EmitProgress(events,
                    CollEv("collection-start", collIndex, Null, totalDocs'))
    /\ pos' = 0 /\ done' = 0 /\ elapsed' = 0
    /\ buffer' = <<>> /\ docsBatch' = <<>>
    /\ pc' = "read"
    /\ UNCHANGED <<jobVars, fsOut, wsBuf, archive, paths, scheduledCleanups,
                   collIndex, client, dstClient, failed, res>>
    /\ UNCHANGED <<regVars, uiVars>>

\* dst.deleteMany({}) rejects: the read stream rs was created and is never read
UploadDeleteFail ==
    /\ pc = "collBegin" /\ mode = "import"
    /\ streams' = [streams EXCEPT ![collIndex] = "open"]
    /\ Throw
    /\ UNCHANGED <<jobVars, dst, fsOut, wsBuf, archive, paths, scheduledCleanups,
                   loopVars, client, dstClient, events, res>>
    /\ UNCHANGED <<regVars, uiVars>>

UploadChunkNoCarry ==
    /\ pc = "read" /\ mode = "import"
    /\ IndexOf(buffer, NL) = 0
    /\ pos < Len(files[collIndex])
    /\ \E k \in 1..MaxChunk :
          /\ pos + k <= Len(files[collIndex])
          /\ buffer' = SubSeq(files[collIndex], pos + 1, pos + k)
          /\ pos' = pos + k
    /\ UNCHANGED <<jobVars, dataVars, collIndex, done, totalDocs, elapsed,
                   docsBatch, ctlVars>>
    /\ UNCHANGED <<regVars, uiVars>>

\* for await (const chunk of rs): buffer += chunk
UploadChunk ==
    /\ pc = "read" /\ mode = "import"
    /\ IndexOf(buffer, NL) = 0
    /\ pos < Len(files[collIndex])
    /\ \E k \in 1..MaxChunk :
          /\ pos + k <= Len(files[collIndex])
          /\ buffer' = buffer \o SubSeq(files[collIndex], pos + 1, pos + k)
          /\ pos' = pos + k
    /\ UNCHANGED <<jobVars, dataVars, collIndex, done, totalDocs, elapsed,
                   docsBatch, ctlVars>>
    /\ UNCHANGED <<regVars, uiVars>>

\* the read stream fails: for await throws and destroys the stream
UploadReadFail ==
    /\ pc = "read" /\ mode = "import"
    /\ IndexOf(buffer, NL) = 0
    /\ pos < Len(files[collIndex])
    /\ streams' = [streams EXCEPT ![collIndex] = "closed"]
    /\ Throw
    /\ UNCHANGED <<jobVars, dst, fsOut, wsBuf, archive, paths, scheduledCleanups,
                   loopVars, client, dstClient, events, res>>
    /\ UNCHANGED <<regVars, uiVars>>

\* the line up to the next "\n", trimmed
NextLine == Trim(SubSeq(buffer, 1, IndexOf(buffer, NL) - 1))
RestOfBuffer == SubSeq(buffer, IndexOf(buffer, NL) + 1, Len(buffer))

PushLineNoSkip ==
    IF NextLine = <<>>
    THEN docsBatch
    ELSE Append(docsBatch,
                IF JsonParse(NextLine) = Null THEN "?" ELSE JsonParse(NextLine)[1])

\* docsBatch after the next line: blank and undecodable lines are skipped
PushLine ==
    IF NextLine = <<>> \/ JsonParse(NextLine) = Null
    THEN docsBatch
    ELSE Append(docsBatch, JsonParse(NextLine)[1])

BatchFullOffByOne == PushLine # docsBatch /\ Len(PushLine) > BATCH_SIZE

\* the next line completes a batch: docsBatch.length >= BATCH_SIZE after a push
BatchFull == PushLine # docsBatch /\ Len(PushLine) >= BATCH_SIZE

\* one pass of while ((idx = buffer.indexOf("\n")) >= 0)
UploadLine ==
    /\ pc = "read" /\ mode = "import"
    /\ IndexOf(buffer, NL) > 0
    /\ buffer' = RestOfBuffer
    /\ IF BatchFull
       THEN /\ dst' = [dst EXCEPT ![collIndex] = @ \o PushLine]
            /\ done' = done + Len(PushLine)
            /\ docsBatch' = <<>>
            /\ Tick
            /\ events' = EmitProgress(events,
                            ProgressEvent(collIndex, done', totalDocs, elapsed'))
       ELSE /\ docsBatch' = PushLine
            /\ UNCHANGED <<dst, done, elapsed, events>>
    /\ UNCHANGED <<jobVars, fsOut, wsBuf, streams, archive, paths,
                   scheduledCleanups, collIndex, pos, totalDocs, pc, client,
                   dstClient, failed, res>>
    /\ UNCHANGED <<regVars, uiVars>>

\* insertMany of a full batch rejects after inserting part of it
UploadInsertFail ==
    /\ pc = "read" /\ mode = "import"
    /\ IndexOf(buffer, NL) > 0
    /\ BatchFull
    /\ buffer' = RestOfBuffer
    /\ docsBatch' = PushLine
    /\ \E j \in 0..(Len(PushLine) - 1) :
          dst' = [dst EXCEPT ![collIndex] = @ \o SubSeq(PushLine, 1, j)]
    /\ streams' = [streams EXCEPT ![collIndex] = "closed"]
    /\ Throw
    /\ UNCHANGED <<jobVars, fsOut, wsBuf, archive, paths, scheduledCleanups,
                   collIndex, pos, done, totalDocs, elapsed, client, dstClient,
                   events, res>>
    /\ UNCHANGED <<regVars, uiVars>>

UploadStreamEndParseTail ==
    /\ pc = "read" /\ mode = "import"
    /\ IndexOf(buffer, NL) = 0
    /\ pos = Len(files[collIndex])
    /\ streams' = [streams EXCEPT ![collIndex] = "closed"]
    /\ LET last == IF Trim(buffer) = <<>> \/ JsonParse(Trim(buffer)) = Null
                   THEN docsBatch
                   ELSE Append(docsBatch, JsonParse(Trim(buffer))[1])
       IN  IF last # <<>>
           THEN /\ dst' = [dst EXCEPT ![collIndex] = @ \o last]
                /\ done' = done + Len(last)
                /\ Tick
                /\ events' = EmitProgress(
                      EmitProgress(events,
                          ProgressEvent(collIndex, done', totalDocs, elapsed')),
                      CollEv("collection-done", collIndex, Some(done'), Null))
           ELSE /\ UNCHANGED <<dst, done, elapsed>>
                /\ events' = EmitProgress(events,
                                CollEv("collection-done", collIndex, Some(done), Null))
    /\ NextColl
    /\ UNCHANGED <<jobVars, fsOut, wsBuf, archive, paths, scheduledCleanups, pos,
                   totalDocs, buffer, docsBatch, client, dstClient, failed, res>>
    /\ UNCHANGED <<regVars, uiVars>>

UploadStreamEndAlwaysFlush ==
    /\ pc = "read" /\ mode = "import"
    /\ IndexOf(buffer, NL) = 0
    /\ pos = Len(files[collIndex])
    /\ streams' = [streams EXCEPT ![collIndex] = "closed"]
    /\ dst' = [dst EXCEPT ![collIndex] = @ \o docsBatch]
    /\ done' = done + Len(docsBatch)
    /\ Tick
    /\ events' = EmitProgress(
          EmitProgress(events,
              ProgressEvent(collIndex, done', totalDocs, elapsed')),
          CollEv("collection-done", collIndex, Some(done'), Null))
    /\ NextColl
    /\ UNCHANGED <<jobVars, fsOut, wsBuf, archive, paths, scheduledCleanups, pos,
                   totalDocs, buffer, docsBatch, client, dstClient, failed, res>>
    /\ UNCHANGED <<regVars, uiVars>>

\* the stream ended: the trailing flush, then upload-collection-done
UploadStreamEnd ==
    /\ pc = "read" /\ mode = "import"
    /\ IndexOf(buffer, NL) = 0
    /\ pos = Len(files[collIndex])
    /\ streams' = [streams EXCEPT ![collIndex] = "closed"]
    /\ IF docsBatch # <<>>
       THEN /\ dst' = [dst EXCEPT ![collIndex] = @ \o docsBatch]
            /\ done' = done + Len(docsBatch)
            /\ Tick
            /\ events' = EmitProgress(
                  EmitProgress(events,
                      ProgressEvent(collIndex, done', totalDocs, elapsed')),
                  CollEv("collection-done", collIndex, Some(done'), Null))
       ELSE /\ UNCHANGED <<dst, done, elapsed>>
            /\ events' = EmitProgress(events,
                            CollEv("collection-done", collIndex, Some(done), Null))
    /\ NextColl
    /\ UNCHANGED <<jobVars, fsOut, wsBuf, archive, paths, scheduledCleanups, pos,
                   totalDocs, buffer, docsBatch, client, dstClient, failed, res>>
    /\ UNCHANGED <<regVars, uiVars>>

\* insertMany of the trailing batch rejects after inserting part of it
UploadTrailFail ==
    /\ pc = "read" /\ mode = "import"
    /\ IndexOf(buffer, NL) = 0
    /\ pos = Len(files[collIndex])
    /\ docsBatch # <<>>
    /\ \E j \in 0..(Len(docsBatch) - 1) :
          dst' = [dst EXCEPT ![collIndex] = @ \o SubSeq(docsBatch, 1, j)]
    /\ streams' = [streams EXCEPT ![collIndex] = "closed"]
    /\ Throw
    /\ UNCHANGED <<jobVars, fsOut, wsBuf, archive, paths, scheduledCleanups,
                   loopVars, client, dstClient, events, res>>
    /\ UNCHANGED <<regVars, uiVars>>

\* scheduleCleanup of both paths, upload-done and the response
UploadFinish ==
    /\ pc = "finish" /\ mode = "import"
    /\ ScheduleCleanups("extractDir", "upload")
    /\ events' = EmitProgress(events, JobEv("done"))
    /\ res' = 200
    /\ pc' = "innerFinally"
    /\ UNCHANGED <<jobVars, dst, fsOut, wsBuf, streams, archive, paths, loopVars,
                   client, dstClient, failed, clock, removing, jobDirs>>
    /\ UNCHANGED uiVars

\* inner finally { if (client) await client.close(); } then, if an exception
\* is pending, the outer catch
UploadInnerFinally ==
    /\ pc = "innerFinally" /\ mode = "import"
    /\ client' = CloseOf(client)
    /\ IF failed
       THEN UploadCatch
       ELSE pc' = "outerFinally" /\ UNCHANGED <<failed, events, res>>
    /\ UNCHANGED <<jobVars, dataVars, loopVars, dstClient>>
    /\ UNCHANGED <<regVars, uiVars>>

\* client.close() rejects in the inner finally: the outer catch runs
UploadCloseFail ==
    /\ pc = "innerFinally" /\ mode = "import"
    /\ client # "none"
    /\ client' = "closeFailed"
    /\ UploadCatch
    /\ UNCHANGED <<jobVars, dataVars, loopVars, dstClient>>
    /\ UNCHANGED <<regVars, uiVars>>

\* outer finally: fs.remove(filePath), errors swallowed
UploadOuterFinally ==
    /\ pc = "outerFinally" /\ mode = "import"
    /\ paths' \in {paths \ {"upload"}, paths}
    /\ pc' = "end"
    /\ UNCHANGED <<jobVars, dst, fsOut, wsBuf, streams, archive,
                   scheduledCleanups, loopVars, client, dstClient, failed, events, res>>
    /\ UNCHANGED <<regVars, uiVars>>

UploadNext ==
    \/ UploadRequest \/ UploadEnsureDirFail \/ UploadExtract \/ UploadExtractFail
    \/ UploadConnect \/ UploadConnectFail \/ UploadFileBegin \/ UploadDeleteFail
    \/ UploadChunk \/ UploadReadFail \/ UploadLine \/ UploadInsertFail
    \/ UploadStreamEnd \/ UploadTrailFail \/ UploadFinish \/ UploadInnerFinally
    \/ UploadCloseFail \/ UploadOuterFinally

Next == BackupNext \/ TransferNext \/ UploadNext \/ CleanupFire \/ CleanupRemoved

Spec == Init /\ [][Next]_vars

-----------------------------------------------------------------------------
(* The server process across requests: the paths each handler derives from  *)
(* Date.now() and the cleanup registry the handlers share                   *)

\* the requests the server process receives
Requests == {"r1", "r2"}
DbNames == {"db1", "db2"}

\* path.join(__dirname, `${dbName}-${timestamp}`) and its .zip
OutDir(dbName, timestamp) == <<dbName, timestamp>>
ZipPath(dbName, timestamp) == <<dbName, timestamp, "zip">>
\* path.join(UPLOAD_DIR, `extract-${Date.now()}`)
ExtractDir(timestamp) == <<"extract", timestamp>>
\* req.file.path: multer gives every upload a name of its own
FilePath(r) == <<"upload", r>>

InitShared ==
    /\ mode = "none" /\ missing = "none" /\ socketId = FALSE /\ batchIn = Null
    /\ src = <<>> /\ files = <<>> /\ dst = <<>>
    /\ fsOut = <<>> /\ wsBuf = <<>> /\ streams = <<>> /\ archive = Null
    /\ paths = {}
    /\ scheduledCleanups = {}
    /\ pc = "idle" /\ client = "none" /\ dstClient = "none"
    /\ collIndex = 0 /\ pos = 0 /\ done = 0 /\ totalDocs = Null /\ elapsed = 0
    /\ buffer = <<>> /\ docsBatch = <<>>
    /\ failed = FALSE /\ events = <<>> /\ res = 0
    /\ clock = 0
    /\ fireAt = <<>>
    /\ removing = {}
    /\ cleanupLog = <<>>
    /\ jobDirs = <<>>
    /\ formsDisabled = FALSE /\ clientSocketId = Null /\ connected = FALSE
    /\ ui = "idle" /\ request = Null /\ inbox = <<>>

\* POST /api/backup arrives: timestamp = Date.now(), ensureDir(outDir)
ServerBackupStart ==
    /\ \E r \in Requests \ DOMAIN jobDirs, db \in DbNames :
          /\ jobDirs' = (r :> [kind |-> "export", running |-> TRUE,
                               dir  |-> OutDir(db, clock),
                               file |-> ZipPath(db, clock)]) @@ jobDirs
          /\ paths' = paths \cup {OutDir(db, clock)}
    /\ UNCHANGED <<jobVars, dst, fsOut, wsBuf, streams, archive, scheduledCleanups,
                   loopVars, ctlVars, clock, fireAt, removing, cleanupLog>>
    /\ UNCHANGED uiVars

\* the export wrote its archive and answered
ServerBackupFinish ==
    /\ \E r \in DOMAIN jobDirs :
          /\ jobDirs[r].kind = "export" /\ jobDirs[r].running
          /\ jobDirs' = [jobDirs EXCEPT ![r].running = FALSE]
          /\ paths' = paths \cup {jobDirs[r].file}
    /\ UNCHANGED <<jobVars, dst, fsOut, wsBuf, streams, archive, scheduledCleanups,
                   loopVars, ctlVars, clock, fireAt, removing, cleanupLog>>
    /\ UNCHANGED uiVars

\* POST /api/upload arrives: multer stored the file, ensureDir(extractDir)
ServerUploadStart ==
    /\ \E r \in Requests \ DOMAIN jobDirs :
          /\ jobDirs' = (r :> [kind |-> "import", running |-> TRUE,
                               dir  |-> ExtractDir(clock),
                               file |-> FilePath(r)]) @@ jobDirs
          /\ paths' = paths \cup {ExtractDir(clock), FilePath(r)}
    /\ UNCHANGED <<jobVars, dst, fsOut, wsBuf, streams, archive, scheduledCleanups,
                   loopVars, ctlVars, clock, fireAt, removing, cleanupLog>>
    /\ UNCHANGED uiVars

\* the import completed: both scheduleCleanup calls, then fs.remove(filePath)
ServerUploadFinish ==
    /\ \E r \in DOMAIN jobDirs :
          /\ jobDirs[r].kind = "import" /\ jobDirs[r].running
          /\ jobDirs' = [jobDirs EXCEPT ![r].running = FALSE]
          /\ ScheduleCleanups(jobDirs[r].dir, jobDirs[r].file)
          /\ paths' = paths \ {jobDirs[r].file}
    /\ UNCHANGED <<jobVars, dst, fsOut, wsBuf, streams, archive, loopVars, ctlVars,
                   clock, removing>>
    /\ UNCHANGED uiVars

\* time passes
ClockAdvance ==
    /\ clock < MaxClock
    /\ clock' = clock + 1
    /\ UNCHANGED <<jobVars, dataVars, loopVars, ctlVars, fireAt, removing,
                   cleanupLog, jobDirs>>
    /\ UNCHANGED uiVars

NextShared ==
    \/ ServerBackupStart \/ ServerBackupFinish
    \/ ServerUploadStart \/ ServerUploadFinish
    \/ ClockAdvance \/ CleanupFire \/ CleanupRemoved

SpecShared == InitShared /\ [][NextShared]_vars

-----------------------------------------------------------------------------
(* The browser client: one page, its socket and its three forms; the server *)
(* is seen through the response and the terminal events of a job             *)

Forms == {"backup", "transfer", "upload"}

UiEv(form, kind) == [form |-> form, kind |-> kind]

InitClient ==
    /\ mode = "none" /\ missing = "none" /\ socketId = FALSE /\ batchIn = Null
    /\ src = <<>> /\ files = <<>> /\ dst = <<>>
    /\ fsOut = <<>> /\ wsBuf = <<>> /\ streams = <<>> /\ archive = Null
    /\ paths = {}
    /\ scheduledCleanups = {}
    /\ pc = "idle" /\ client = "none" /\ dstClient = "none"
    /\ collIndex = 0 /\ pos = 0 /\ done = 0 /\ totalDocs = Null /\ elapsed = 0
    /\ buffer = <<>> /\ docsBatch = <<>>
    /\ failed = FALSE /\ events = <<>> /\ res = 0
    /\ clock = 0 /\ fireAt = <<>> /\ removing = {} /\ cleanupLog = <<>>
    /\ jobDirs = <<>>
    /\ formsDisabled = FALSE
    /\ clientSocketId = Null
    /\ connected = TRUE
    /\ ui = "idle"
    /\ request = Null
    /\ inbox = <<>>

\* socket.on("welcome"): socketId = d.socketId
Welcome ==
    /\ connected /\ clientSocketId = Null
    /\ clientSocketId' = Some("s1")
    /\ UNCHANGED <<srvVars, formsDisabled, connected, ui, request, inbox>>

\* the socket disconnects: what was emitted to it and not handled is lost
Disconnect ==
    /\ connected
    /\ connected' = FALSE
    /\ inbox' = <<>>
    /\ UNCHANGED <<srvVars, formsDisabled, clientSocketId, ui, request>>

\* a form's submit handler: setFormsDisabled(true), the client-side checks,
\* then fetch with the current socketId in the body
Submit ==
    /\ ui # "fetching" /\ ~formsDisabled
    /\ \E form \in Forms, valid \in BOOLEAN :
          IF valid
          THEN /\ formsDisabled' = TRUE
               /\ request' = [form |-> form, socketId |-> clientSocketId,
                              status |-> 0]
               /\ ui' = "fetching"
          ELSE UNCHANGED <<formsDisabled, request, ui>>
    /\ UNCHANGED <<srvVars, clientSocketId, connected, inbox>>

\* the server runs the job of the posted request: its events reach the
\* browser when the request carried the id of the connected socket
ServerJob ==
    /\ request # Null /\ request.status = 0
    /\ \E out \in {<<200, <<"start", "done">>>>, <<500, <<"start", "error">>>>,
                    <<500, <<"error">>>>} :
          /\ Len(inbox) + Len(out[2]) <= MaxInbox
          /\ request' = [request EXCEPT !.status = out[1]]
          /\ inbox' = IF request.socketId # Null /\ connected
                      THEN inbox \o [i \in 1..Len(out[2]) |->
                                        UiEv(request.form, out[2][i])]
                      ELSE inbox
    /\ UNCHANGED <<srvVars, formsDisabled, clientSocketId, connected, ui>>

\* a socket.on handler runs: *-done and *-error enable the forms,
\* upload-start disables them
Receive ==
    /\ inbox # <<>>
    /\ formsDisabled' =
          CASE Head(inbox).kind \in {"done", "error"} -> FALSE
            [] Head(inbox).kind = "start" /\ Head(inbox).form = "upload" -> TRUE
            [] OTHER -> formsDisabled
    /\ inbox' = Tail(inbox)
    /\ UNCHANGED <<srvVars, clientSocketId, connected, ui, request>>

\* fetch resolves with r.ok: the body is logged
FetchOk ==
    /\ ui = "fetching" /\ request.status = 200
    /\ ui' = "settled"
    /\ UNCHANGED <<srvVars, formsDisabled, clientSocketId, connected, request, inbox>>

\* fetch resolves with !r.ok: setFormsDisabled(false)
FetchHttpError ==
    /\ ui = "fetching" /\ request.status = 500
    /\ formsDisabled' = FALSE
    /\ ui' = "settled"
    /\ UNCHANGED <<srvVars, clientSocketId, connected, request, inbox>>

\* fetch rejects (network failure): setFormsDisabled(false)
FetchReject ==
    /\ ui = "fetching"
    /\ formsDisabled' = FALSE
    /\ ui' = "settled"
    /\ UNCHANGED <<srvVars, clientSocketId, connected, request, inbox>>

NextClient ==
    \/ Welcome \/ Disconnect \/ Submit \/ ServerJob \/ Receive
    \/ FetchOk \/ FetchHttpError \/ FetchReject

SpecClient == InitClient /\ [][NextClient]_vars

-----------------------------------------------------------------------------
(* Properties *)

IsProgress(e) == e.kind = "progress"
KnownTotal(e) == e.total # Null /\ e.total[1] > 0
Indices       == 1..Len(events)

\* the events of one collection, in emission order
RECURSIVE EventsOf(_, _)
EventsOf(log, c) ==
    IF log = <<>> THEN <<>>
    ELSE (IF Head(log).coll = c THEN <<Head(log)>> ELSE <<>>) \o EventsOf(Tail(log), c)

RECURSIVE KindCount(_, _)
KindCount(log, kind) ==
    IF log = <<>> THEN 0
    ELSE (IF Head(log).kind = kind THEN 1 ELSE 0) + KindCount(Tail(log), kind)

\* C1: in every mode, a progress event of a collection whose totalDocs is
\* known carries percent = min(100, round(done / totalDocs * 100)), and the
\* percent values of the successive progress events of one collection never
\* decrease.
C1_PercentKnownTotal ==
    /\ \A i \in Indices :
          LET e == events[i] IN
          (IsProgress(e) /\ KnownTotal(e)) =>
              LET raw == (200 * e.done[1] + e.total[1]) \div (2 * e.total[1])
              IN  e.percent = <<IF raw > 100 THEN 100 ELSE raw>>
    /\ \A i, j \in Indices :
          (/\ i < j
           /\ IsProgress(events[i]) /\ IsProgress(events[j])
           /\ events[i].coll = events[j].coll
           /\ KnownTotal(events[i]) /\ KnownTotal(events[j]))
          => events[i].percent[1] <= events[j].percent[1]

\* C1 witness: two progress events of one collection with a known total, the
\* second clamped to 100 because done exceeds the (stale) total
C1_Witness ==
    \E i, j \in Indices :
        /\ i < j
        /\ IsProgress(events[i]) /\ IsProgress(events[j])
        /\ events[i].coll = events[j].coll
        /\ KnownTotal(events[i])
        /\ events[i].percent[1] < 100
        /\ events[j].done[1] > events[j].total[1]
        /\ events[j].percent = <<100>>

\* C2: when the count is unknown (countDocuments failed or answered 0, the
\* line count failed or is 0), every progress event of the collection has
\* percent = null and etaSec = null, whatever its done count.
C2_UnknownTotalNulls ==
    \A i \in Indices :
        LET e == events[i] IN
        (IsProgress(e) /\ ~KnownTotal(e)) => (e.percent = <<>> /\ e.etaSec = <<>>)

\* C2 witness: progress was reported with totalDocs = 0 after two or more
\* records were processed
C2_Witness ==
    \E i \in Indices :
        /\ IsProgress(events[i])
        /\ events[i].total = <<0>>
        /\ events[i].done[1] >= 2

\* C3: speed = round(done / max(1, elapsedSeconds)) >= 0 in every progress
\* event; etaSec is null unless totalDocs > 0 and speed > 0, and then it is
\* max(0, round((totalDocs - done) / speed)), never negative.
C3_SpeedAndEta ==
    /\ \A i \in Indices :
          LET e == events[i] IN
          IsProgress(e) =>
              /\ e.speed # <<>> /\ e.speed[1] >= 0
              /\ IF KnownTotal(e) /\ e.speed[1] > 0
                 THEN LET q == (2 * (e.total[1] - e.done[1]) + e.speed[1])
                                   \div (2 * e.speed[1])
                      IN  e.etaSec = <<IF q < 0 THEN 0 ELSE q>>
                 ELSE e.etaSec = <<>>
    /\ (events # <<>> /\ IsProgress(events[Len(events)])) =>
          LET e   == events[Len(events)]
              den == IF elapsed < 1000 THEN 1000 ELSE elapsed
          IN  /\ e.done = <<done>>
              /\ e.speed = <<(2 * 1000 * done + den) \div (2 * den)>>

\* C3 witness: done exceeds a too small totalDocs with a positive speed, so
\* the raw estimate is negative and etaSec is 0; another event was emitted
\* within the first second (speed = done) and one has speed 0
C3_Witness ==
    /\ \E i \in Indices :
          LET e == events[i] IN
          /\ IsProgress(e)
          /\ KnownTotal(e)
          /\ e.speed[1] > 0
          /\ 2 * (e.done[1] - e.total[1]) > e.speed[1]
          /\ e.etaSec = <<0>>
    /\ \E i \in Indices :
          IsProgress(events[i]) /\ events[i].speed = events[i].done
    /\ \E i \in Indices :
          /\ IsProgress(events[i]) /\ KnownTotal(events[i])
          /\ events[i].speed = <<0>> /\ events[i].etaSec = <<>>

-----------------------------------------------------------------------------

\* the done counts of the progress events of one collection, in order
RECURSIVE DonesOf(_, _)
DonesOf(log, c) ==
    IF log = <<>> THEN <<>>
    ELSE (IF IsProgress(Head(log)) /\ Head(log).coll = c
          THEN <<Head(log).done[1]>> ELSE <<>>) \o DonesOf(Tail(log), c)

RECURSIVE KindsOf(_)
KindsOf(log) ==
    IF log = <<>> THEN <<>> ELSE <<Head(log).kind>> \o KindsOf(Tail(log))

HasEvent(kind, c) == \E i \in Indices : events[i].kind = kind /\ events[i].coll = c

\* N, 2N, ..., n
BatchMarks(n, N) == [i \in 1..((n + N - 1) \div N) |-> IF i * N < n THEN i * N ELSE n]

\* C4: an export of a collection of n records with batch size N >= 1 reports
\* docsDone = N, 2N, ..., n in ceil(n / N) backup-progress events, the cursor
\* advancing once per record, and the collection's file receives exactly n
\* lines, one per record in cursor order.
C4_ExportBatches ==
    (mode = "export" /\ BATCH_SIZE >= 1) =>
        /\ pc = "loop" => (pos = done /\ Len(fsOut[collIndex]) + Len(wsBuf[collIndex]) = 4 * pos)
        /\ \A c \in 1..NColls :
              LET n     == Len(src[c])
                  marks == BatchMarks(n, BATCH_SIZE)
                  dones == DonesOf(events, c)
              IN  /\ Len(dones) <= Len(marks)
                  /\ dones = SubSeq(marks, 1, Len(dones))
                  /\ HasEvent("collection-done", c) => dones = marks
                  /\ streams[c] = "closed" =>
                        /\ Len(fsOut[c]) = 4 * n
                        /\ \A k \in 1..n :
                              SubSeq(fsOut[c], 4 * k - 3, 4 * k)
                                  = <<"{", src[c][k], "}", "\n">>

\* C4 witness: 5 records, batch size 2, known total: events at 2 (40%),
\* 4 (80%), 5 (100%), and the finished file holds 5 lines
C4_Witness ==
    /\ mode = "export" /\ BATCH_SIZE = 2
    /\ src = <<RecordIds>>
    /\ streams[1] = "closed"
    /\ countLinesStream(fsOut[1]) = 5
    /\ HasEvent("collection-done", 1)
    /\ [i \in 1..3 |-> EventsOf(events, 1)[i + 1].percent] = <<<<40>>, <<80>>, <<100>>>>
    /\ DonesOf(events, 1) = <<2, 4, 5>>

\* the collection / file yields no record and its count is 0
EmptyTask(c) ==
    IF mode = "import" THEN countLinesStream(files[c]) = 0 ELSE src[c] = <<>>

\* C5: an empty collection (totalDocs = 0, no record) gets one
\* collection-start event carrying totalDocs = 0, no progress event and then
\* one collection-done event, in each mode.
C5_EmptyCollection ==
    \A c \in 1..NColls :
        (EmptyTask(c) /\ socketId) =>
            LET evs == EventsOf(events, c) IN
            /\ KindsOf(evs) \in {<<>>, <<"collection-start">>,
                                 <<"collection-start", "collection-done">>}
            /\ evs # <<>> =>
                  \/ evs[1].total = <<0>>
                  \/ mode = "import" /\ evs[1].total = <<>>
            /\ (c < collIndex /\ pc # "request") =>
                  KindsOf(evs) = <<"collection-start", "collection-done">>

\* C5 witness: an import of a file without any line has completed
C5_Witness ==
    /\ mode = "import" /\ socketId
    /\ pc = "end" /\ ~failed
    /\ NColls = 2 /\ EmptyTask(1)
    /\ EventsOf(events, 1)[1].total = <<0>>
    /\ KindsOf(EventsOf(events, 1)) = <<"collection-start", "collection-done">>

\* the records of the terminated lines of a text that are non-empty after
\* trimming and decode
RECURSIVE WellFormedRecords(_)
WellFormedRecords(text) ==
    LET idx == IndexOf(text, NL) IN
    IF idx = 0 THEN <<>>
    ELSE LET line == Trim(SubSeq(text, 1, idx - 1))
             rest == SubSeq(text, idx + 1, Len(text))
         IN  IF line = <<>> \/ JsonParse(line) = Null
             THEN WellFormedRecords(rest)
             ELSE <<JsonParse(line)[1]>> \o WellFormedRecords(rest)

\* the next terminated line of the buffer is blank or does not decode
LineSkipped ==
    /\ mode = "import" /\ pc = "read" /\ IndexOf(buffer, NL) > 0
    /\ LET line == Trim(SubSeq(buffer, 1, IndexOf(buffer, NL) - 1))
       IN  line = <<>> \/ JsonParse(line) = Null

\* C6: in import mode a line that fails to decode is skipped without
\* raising: once a file is done, importedCount and the destination hold
\* exactly the well-formed records of its terminated lines, and the step
\* that skips a line raises nothing and emits no upload-error.
C6_MalformedSkipped ==
    /\ [](mode = "import" =>
            \A c \in 1..NColls :
                (c < collIndex /\ pc # "request") =>
                    /\ dst[c] = WellFormedRecords(files[c])
                    /\ \A i \in Indices :
                          (events[i].kind = "collection-done" /\ events[i].coll = c)
                              => events[i].done = <<Len(WellFormedRecords(files[c]))>>)
    /\ [][LineSkipped =>
            /\ failed' = failed
            /\ pc' = "read"
            /\ dst' = dst /\ done' = done
            /\ KindCount(events', "error") = KindCount(events, "error")]_vars

\* C6 witness: a file of one well-formed and one malformed line was imported
\* without error: importedCount = 1
C6_Witness ==
    /\ mode = "import" /\ socketId
    /\ pc = "end" /\ ~failed /\ res = 200
    /\ files = <<Stringify("a") \o <<NL>> \o <<"{", "a">> \o <<NL>>>>
    /\ dst = <<<<"a">>>>
    /\ KindCount(events, "error") = 0
    /\ \E i \in Indices :
          events[i].kind = "collection-done" /\ events[i].done = <<1>>

\* an exception was thrown while a collection was being processed
FailedInCollection == failed /\ collIndex \in 1..NColls

\* C7: after a fatal store error in the middle of a collection the job emits
\* exactly one error event, nothing after it, no done event, and touches no
\* later collection (no collection-start, delete, insert or write).
C7_FatalErrorAborts ==
    FailedInCollection =>
        /\ pc \in {"finally", "innerFinally", "outerFinally", "end"}
        /\ KindCount(events, "done") = 0
        /\ KindCount(events, "error") <= 1
        /\ \A i \in Indices : events[i].kind = "error" => i = Len(events)
        /\ (socketId /\ pc # "innerFinally") => KindCount(events, "error") = 1
        /\ \A c \in (collIndex + 1)..NColls :
              /\ EventsOf(events, c) = <<>>
              /\ mode # "export" => dst[c] = Stale
              /\ fsOut[c] = <<>> /\ wsBuf[c] = <<>> /\ streams[c] = "none"

\* C7 witness: the first of two collections failed after a progress event
C7_Witness ==
    /\ FailedInCollection /\ socketId /\ pc = "end"
    /\ collIndex = 1 /\ NColls = 2
    /\ DonesOf(events, 1) # <<>>
    /\ events[Len(events)].kind = "error"

\* C8: a job that passed validation ends with exactly one terminal outcome:
\* one done event with a 200 response, or one error event with a 5xx
\* response, never both and never neither.
C8_OneTerminalOutcome ==
    (pc = "end" /\ missing = "none" /\ socketId) =>
        \/ /\ KindCount(events, "done") = 1 /\ KindCount(events, "error") = 0
           /\ res = 200
        \/ /\ KindCount(events, "done") = 0 /\ KindCount(events, "error") = 1
           /\ res = 500

\* C9: a request missing a required field is answered 4xx and the job never
\* starts: no connection, no event, no collection cleared, nothing created.
C9_ValidationRejects ==
    missing # "none" =>
        /\ client = "none" /\ dstClient = "none"
        /\ events = <<>>
        /\ \A c \in 1..Len(dst) : dst[c] = Stale
        /\ paths \subseteq {"upload"}
        /\ pc # "request" => (pc = "end" /\ res = 400)

\* C10: on every exit path every store connection the job created and every
\* stream it opened has been closed.
C10_AllReleased ==
    pc = "end" =>
        /\ client \in {"none", "closed", "closeFailed"}
        /\ dstClient \in {"none", "closed", "closeFailed"}
        /\ \A c \in 1..NColls : streams[c] \in {"none", "ending", "closed"}

-----------------------------------------------------------------------------

\* C11: the events of one collection are its collection-start, then its
\* progress events with strictly increasing done counts, then (when the
\* collection completed) its collection-done, which nothing follows.
C11_ProgressOrdered ==
    \A c \in 1..NColls :
        LET kinds == KindsOf(EventsOf(events, c))
            dones == DonesOf(events, c)
        IN  /\ kinds # <<>> => kinds[1] = "collection-start"
            /\ \A i \in 2..Len(kinds) :
                  \/ kinds[i] = "progress"
                  \/ kinds[i] = "collection-done" /\ i = Len(kinds)
            /\ \A i \in 1..(Len(dones) - 1) : dones[i] < dones[i + 1]
            /\ (socketId /\ c < collIndex /\ pc # "request") =>
                  kinds[Len(kinds)] = "collection-done"

-----------------------------------------------------------------------------

\* where the history of one path leaves its registration: every registration
\* is one "set", then no-op calls, one "fire", no-op calls, one "deleted"
RECURSIVE LogState(_)
LogState(h) ==
    IF h = <<>> THEN "absent"
    ELSE LET prev == LogState(SubSeq(h, 1, Len(h) - 1))
             op   == h[Len(h)].op
         IN  CASE prev = "absent"   /\ op = "set"     -> "pending"
               [] prev = "pending"  /\ op = "noop"    -> "pending"
               [] prev = "pending"  /\ op = "fire"    -> "removing"
               [] prev = "removing" /\ op = "noop"    -> "removing"
               [] prev = "removing" /\ op = "deleted" -> "absent"
               [] OTHER -> "bad"

\* the index of the last "set" of a history before position i (0 if none)
LastSetBefore(h, i) ==
    LET js == {j \in 1..(i - 1) : h[j].op = "set"}
    IN  IF js = {} THEN 0 ELSE CHOOSE j \in js : \A k \in js : k <= j

OpsOf(h) == [i \in 1..Len(h) |-> h[i].op]

\* C12: scheduleCleanup calls for a path that is already registered change
\* nothing: one registration has one timer, whose due time stays the one of
\* the call that set it, and its deletion is attempted exactly once.
C12_OnePendingDeletion ==
    \A p \in DOMAIN cleanupLog :
        LET h == cleanupLog[p] IN
        /\ LogState(h) # "bad"
        /\ p \in scheduledCleanups =>
              fireAt[p] = h[LastSetBefore(h, Len(h) + 1)].at + TtlTicks
        /\ \A i \in 1..Len(h) :
              h[i].op = "fire" => h[i].at >= h[LastSetBefore(h, i)].at + TtlTicks

\* C12 witness: a path was scheduled, scheduled again one tick later, and its
\* timer fired once, TtlTicks after the first call
C12_Witness ==
    \E p \in DOMAIN cleanupLog :
        LET h == cleanupLog[p] IN
        /\ OpsOf(h) = <<"set", "noop", "fire", "deleted">>
        /\ h[2].at > h[1].at
        /\ h[3].at = h[1].at + TtlTicks
        /\ p \notin scheduledCleanups

\* C13: a key is in the registry exactly from the call that set its timer
\* until its callback is over; the callback removes the key whether fs.remove
\* succeeded or failed, raises nothing, and the next scheduleCleanup call for
\* the path registers again.
C13_KeyWhilePending ==
    /\ [](/\ DOMAIN fireAt = scheduledCleanups
          /\ removing \subseteq scheduledCleanups
          /\ \A p \in DOMAIN cleanupLog :
                LET h == cleanupLog[p] IN
                /\ p \in scheduledCleanups <=> h[Len(h)].op # "deleted"
                /\ p \in removing <=>
                      \E i \in 1..Len(h) :
                          /\ h[i].op = "fire"
                          /\ \A j \in (i + 1)..Len(h) : h[j].op = "noop"
                /\ \A i \in 2..Len(h) : h[i - 1].op = "deleted" => h[i].op = "set"
          /\ scheduledCleanups \subseteq DOMAIN cleanupLog)
    /\ [][\A p \in removing \ removing' :
              /\ p \notin scheduledCleanups'
              /\ failed' = failed /\ pc' = pc]_vars

\* C13 witness: the deletion of a path failed, its key was removed, and a
\* later scheduleCleanup call registered the path again
C13_Witness ==
    \E p \in scheduledCleanups :
        /\ OpsOf(cleanupLog[p]) = <<"set", "fire", "deleted", "set">>
        /\ ~cleanupLog[p][3].ok
        /\ p \in paths

-----------------------------------------------------------------------------

\* what follows the last line terminator of a text
TailOf(text) ==
    LET nls == {i \in 1..Len(text) : text[i] = NL}
        last == IF nls = {} THEN 0 ELSE CHOOSE i \in nls : \A j \in nls : j <= i
    IN  SubSeq(text, last + 1, Len(text))

RangeOf(seq) == {seq[i] : i \in 1..Len(seq)}

\* the stream of the current file ended with an unterminated rest in the buffer
TailLeft ==
    /\ mode = "import" /\ pc = "read"
    /\ pos = Len(files[collIndex])
    /\ IndexOf(buffer, NL) = 0 /\ buffer # <<>>

\* C14: what the file holds after its last line terminator is neither parsed
\* nor inserted nor counted: once the file is done, the destination and
\* importedCount hold at most one record per terminated line and not the
\* record of the rest, and the stream-end step inserts the accumulated batch
\* only, leaves the rest in the buffer and raises nothing on its account.
C14_TailNotImported ==
    /\ [](mode = "import" =>
            \A c \in 1..NColls :
                (c < collIndex /\ pc # "request" /\ TailOf(files[c]) # <<>>) =>
                    /\ Len(dst[c]) <= countLinesStream(files[c])
                    /\ JsonParse(Trim(TailOf(files[c]))) # Null =>
                          JsonParse(Trim(TailOf(files[c])))[1] \notin RangeOf(dst[c])
                    /\ \A i \in Indices :
                          (events[i].kind = "collection-done" /\ events[i].coll = c)
                              => events[i].done = <<Len(dst[c])>>)
    /\ [][TailLeft =>
            /\ buffer' = buffer
            /\ docsBatch = <<>> => (failed' = failed /\ dst' = dst /\ done' = done)
            /\ pc' \in {"collBegin", "finish"} =>
                  /\ dst'[collIndex] = dst[collIndex] \o docsBatch
                  /\ done' = done + Len(docsBatch)
                  /\ buffer = TailOf(files[collIndex])]_vars

\* C14 witness: a file of one terminated line and one unterminated record was
\* imported without error: one record, importedCount = 1
C14_Witness ==
    /\ mode = "import" /\ socketId
    /\ pc = "end" /\ ~failed /\ res = 200
    /\ files = <<Stringify("a") \o <<NL>> \o Stringify("c")>>
    /\ dst = <<<<"a">>>>
    /\ buffer = Stringify("c")
    /\ KindCount(events, "error") = 0
    /\ \E i \in Indices :
          events[i].kind = "collection-done" /\ events[i].done = <<1>>

-----------------------------------------------------------------------------

\* C15: in copy mode a collection's destination is cleared before its first
\* insert, so while it is copied without error the destination holds the
\* first `transferred` source records and, once it is done, exactly the
\* source's records; every transfer-progress event follows the insert of a
\* non-empty batch and carries the number of records inserted so far.
C15_CopyReplaces ==
    mode = "copy" =>
        /\ \A c \in 1..NColls :
              (c < collIndex /\ pc # "request") => dst[c] = src[c]
        /\ (pc = "loop" /\ ~failed) =>
              /\ dst[collIndex] = SubSeq(src[collIndex], 1, done)
              /\ (socketId /\ done > 0) =>
                    /\ IsProgress(events[Len(events)])
                    /\ events[Len(events)].done = <<Len(dst[collIndex])>>
        /\ \A i \in Indices :
              LET e == events[i] IN
              IsProgress(e) =>
                  /\ e.done[1] >= 1
                  /\ e.done[1] <= Len(dst[e.coll])
                  /\ SubSeq(dst[e.coll], 1, e.done[1])
                        = SubSeq(src[e.coll], 1, e.done[1])
                  /\ \A j \in 1..(i - 1) :
                        (IsProgress(events[j]) /\ events[j].coll = e.coll)
                            => events[j].done[1] < e.done[1]

\* C15 witness: two collections with stale destination content were copied
\* in several batches; the destination equals the source
C15_Witness ==
    /\ mode = "copy" /\ socketId
    /\ pc = "end" /\ ~failed /\ res = 200
    /\ NColls = 2 /\ src[2] # <<>>
    /\ dst = src
    /\ Len(DonesOf(events, 1)) >= 2
    /\ DonesOf(events, 2) = <<Len(src[2])>>

-----------------------------------------------------------------------------

\* C16: without a recipient id nothing is emitted, and what a job does to the
\* stores and files and what it answers does not depend on the recipient id:
\* with or without one, the data written is the same function of the request
\* and of the position of the job, and a job that ends without exception
\* answers 200 with all of its data written.
C16_NoRecipientSameJob ==
    /\ ~socketId => events = <<>>
    /\ (mode = "copy" /\ pc = "loop" /\ ~failed) =>
          dst[collIndex] = SubSeq(src[collIndex], 1, pos)
    /\ (mode = "export" /\ pc = "loop") =>
          fsOut[collIndex] \o wsBuf[collIndex]
              = Ndjson(SubSeq(src[collIndex], 1, pos))
    /\ (mode = "import" /\ pc = "read") =>
          Len(dst[collIndex]) = done
    /\ (pc = "end" /\ ~failed /\ missing = "none") =>
          /\ res = 200
          /\ \A c \in 1..NColls :
                CASE mode = "copy"   -> dst[c] = src[c]
                  [] mode = "export" -> fsOut[c] \o wsBuf[c] = Ndjson(src[c])
                  [] mode = "import" -> dst[c] = WellFormedRecords(files[c])

\* C16 witness: a copy without recipient id ended with 200, the destination
\* equal to the source, and no event
C16_Witness ==
    /\ ~socketId /\ mode = "copy"
    /\ pc = "end" /\ ~failed /\ res = 200
    /\ Len(src) = 1 /\ Len(src[1]) >= 2
    /\ dst = src
    /\ events = <<>>

-----------------------------------------------------------------------------

\* the artifact paths a job of the current mode produces
Artifacts ==
    CASE mode = "export" -> {"outDir", "zip"}
      [] mode = "import" -> {"extractDir", "upload"}
      [] OTHER -> {}

\* C17: when a job has completed successfully, scheduleCleanup has set a
\* timer for every artifact path it produced.
C17_ArtifactsScheduled ==
    (pc = "end" /\ ~failed /\ res = 200) =>
        \A p \in Artifacts :
            /\ p \in DOMAIN cleanupLog
            /\ cleanupLog[p][1].op = "set"

-----------------------------------------------------------------------------

\* C18: two jobs never work in the same output directory, archive file or
\* extraction directory, nor on the same uploaded file.
C18_OwnPaths ==
    \A r1, r2 \in DOMAIN jobDirs :
        r1 # r2 =>
            /\ jobDirs[r1].dir # jobDirs[r2].dir
            /\ jobDirs[r1].file # jobDirs[r2].file

-----------------------------------------------------------------------------

\* C19: in a batch loop whose cursor is not exhausted the effective batch
\* size is at least 1 and the next pass consumes at least one record.
C19_BatchLoopAdvances ==
    (pc = "loop" /\ mode \in {"export", "copy"} /\ pos < Len(src[collIndex])) =>
        /\ BATCH_SIZE >= 1
        /\ PullCount(Len(src[collIndex]) - pos) >= 1

-----------------------------------------------------------------------------

\* C20: the state of the import of a file depends on how much of the file
\* was read, not on how it was cut into chunks: the buffer is the part of the
\* text read after its last processed line terminator, the records inserted
\* and accumulated are the well-formed records of the lines before it, they
\* were inserted in batches of the effective batch size, and a finished file
\* has the progress values of these batches.
C20_ChunkIndependent ==
    mode = "import" =>
        LET N == IF BATCH_SIZE >= 1 THEN BATCH_SIZE ELSE 1 IN
        /\ pc = "read" =>
              LET text == files[collIndex]
                  cut  == pos - Len(buffer)
              IN  /\ cut >= 0
                  /\ buffer = SubSeq(text, cut + 1, pos)
                  /\ cut = 0 \/ text[cut] = NL
                  /\ dst[collIndex] \o docsBatch
                        = WellFormedRecords(SubSeq(text, 1, cut))
                  /\ Len(dst[collIndex]) = done
                  /\ done % N = 0 /\ Len(docsBatch) < N
                  /\ socketId =>
                        DonesOf(events, collIndex) = [i \in 1..(done \div N) |-> i * N]
        /\ \A c \in 1..NColls :
              (socketId /\ c < collIndex /\ pc # "request") =>
                  DonesOf(events, c)
                      = BatchMarks(Len(WellFormedRecords(files[c])), N)

\* C20 witness: a chunk ended in the middle of the second record of a file,
\* after the first record was parsed
C20_Witness ==
    /\ mode = "import" /\ pc = "read"
    /\ buffer = <<"{", "a">>
    /\ pos < Len(files[collIndex])
    /\ files[collIndex][pos + 1] = "}"
    /\ dst[collIndex] \o docsBatch # <<>>

-----------------------------------------------------------------------------

\* a step of the import of the current file that consumes a terminated line
LineStep ==
    /\ mode = "import" /\ pc = "read" /\ pc' = "read"
    /\ IndexOf(buffer, NL) > 0 /\ buffer' # buffer

\* the step that ends the current file without exception
FileEndStep ==
    /\ mode = "import" /\ pc = "read" /\ pc' \in {"collBegin", "finish"}

\* C21: with batch size N >= 1 the accumulation batch holds fewer than N
\* records between steps; a line step either accumulates or inserts the
\* batch of exactly N records and clears it; the step that ends the file
\* inserts a non-empty rest once, with one progress event; every progress
\* event carries the number of records inserted so far; a finished file has
\* every well-formed record inserted once, in file order.
C21_BatchDiscipline ==
    /\ []((mode = "import" /\ BATCH_SIZE >= 1) =>
            /\ Len(docsBatch) <= BATCH_SIZE
            /\ pc = "read" =>
                  /\ Len(docsBatch) < BATCH_SIZE
                  /\ (events # <<>> /\ IsProgress(events[Len(events)])) =>
                        events[Len(events)].done = <<Len(dst[collIndex])>>
            /\ \A c \in 1..NColls :
                  (c < collIndex /\ pc # "request") =>
                      /\ dst[c] = WellFormedRecords(files[c])
                      /\ socketId =>
                            \A k \in 1..Len(DonesOf(events, c)) :
                                DonesOf(events, c)[k]
                                    = IF k * BATCH_SIZE < Len(dst[c])
                                      THEN k * BATCH_SIZE ELSE Len(dst[c]))
    /\ [][(LineStep /\ BATCH_SIZE >= 1) =>
            LET c == collIndex IN
            \/ /\ dst' = dst /\ events' = events
               /\ Len(docsBatch') \in {Len(docsBatch), Len(docsBatch) + 1}
               /\ SubSeq(docsBatch', 1, Len(docsBatch)) = docsBatch
            \/ /\ docsBatch' = <<>>
               /\ Len(dst'[c]) = Len(dst[c]) + BATCH_SIZE
               /\ SubSeq(dst'[c], 1, Len(dst[c]) + Len(docsBatch))
                     = dst[c] \o docsBatch
               /\ done' = Len(dst'[c])]_vars
    /\ [][(FileEndStep /\ BATCH_SIZE >= 1) =>
            LET c == collIndex IN
            /\ dst'[c] = dst[c] \o docsBatch
            /\ done' = Len(dst'[c])
            /\ KindCount(events', "progress") - KindCount(events, "progress")
                  = IF socketId /\ docsBatch # <<>> THEN 1 ELSE 0]_vars

\* C21 witness: with batch size 2, a file of three records was inserted as
\* one full batch and a rest of one record at stream end
C21_Witness ==
    /\ mode = "import" /\ socketId /\ BATCH_SIZE = 2
    /\ pc = "end" /\ ~failed
    /\ NColls = 1
    /\ dst[1] = <<"a", "b", "c">>
    /\ DonesOf(events, 1) = <<2, 3>>

-----------------------------------------------------------------------------

\* C22: when the export's output directory is archived, every collection's
\* write stream has finished with all its lines in the file, so that the
\* archive holds all n lines of each collection.
C22_ArchiveComplete ==
    (mode = "export" /\ archive # Null) =>
        \A c \in 1..NColls :
            /\ archive[1][c] = Ndjson(src[c])
            /\ countLinesStream(archive[1][c]) = Len(src[c])

-----------------------------------------------------------------------------

\* the posted job is over for the browser: the server answered, fetch has
\* settled and no socket event is left to handle
JobOver ==
    /\ ui = "settled"
    /\ request # Null /\ request.status # 0
    /\ inbox = <<>>

\* C23: once the job of a submitted form is over, in whatever way, the forms
\* are enabled again.
C23_FormsReenabled == JobOver => ~formsDisabled

-----------------------------------------------------------------------------

\* the totalDocs the collection-start event of a collection carried
StartTotal(c) ==
    LET evs == EventsOf(events, c)
    IN  IF evs = <<>> THEN Null ELSE evs[1].total

\* every terminated line of a text is non-blank and decodes
RECURSIVE AllLinesGood(_)
AllLinesGood(text) ==
    LET idx == IndexOf(text, NL) IN
    IF idx = 0 THEN TRUE
    ELSE LET line == Trim(SubSeq(text, 1, idx - 1))
         IN  /\ line # <<>>
             /\ JsonParse(line) # Null
             /\ AllLinesGood(SubSeq(text, idx + 1, Len(text)))

\* C24: in import mode, when the line count of a file succeeded, totalDocs
\* is the number of line terminators of the file, importedCount is at most
\* totalDocs in every upload-progress and upload-collection-done event of
\* the file, and the final importedCount equals totalDocs only if no
\* terminated line is blank or malformed.
C24_ImportedAtMostTotal ==
    mode = "import" =>
        \A i \in Indices :
            LET e == events[i]
                T == StartTotal(e.coll)
            IN  (e.coll \in 1..NColls /\ T # Null) =>
                    /\ T[1] = Cardinality({k \in 1..Len(files[e.coll]) :
                                              files[e.coll][k] = NL})
                    /\ IsProgress(e) => (e.total = T /\ e.done[1] <= T[1])
                    /\ e.kind = "collection-done" =>
                          /\ e.done[1] <= T[1]
                          /\ e.done[1] = T[1] => AllLinesGood(files[e.coll])

\* C24 witness: a file of one record and one blank line was imported:
\* totalDocs = 2, importedCount = 1 in the progress and the done event
C24_Witness ==
    /\ mode = "import" /\ socketId
    /\ pc = "end" /\ ~failed
    /\ files = <<Stringify("a") \o <<NL>> \o <<" ">> \o <<NL>>>>
    /\ StartTotal(1) = <<2>>
    /\ DonesOf(events, 1) = <<1>>
    /\ \E i \in Indices :
          events[i].kind = "collection-done" /\ events[i].done = <<1>>

====
